---- MODULE Spec2Model ----
(***************************************************************************)
(* NuScenesVisualizer (viewer/nuscenesController/controller.py): the       *)
(* dataset mirror built by the constructor, the frame walk of              *)
(* visualize_n_frames, and the pointer handlers on_click / on_lidar_click  *)
(* / on_press / on_motion / on_release that redact a camera raster or the  *)
(* point cloud.                                                            *)
(*                                                                         *)
(* Conventions.  A path is a sequence of tokens: "/" is the separator and  *)
(* every other token is an indivisible piece of a file name, so that       *)
(* "v1.0-mini-edited" is <<"v1.0-mini", "-edited">> and str.replace sees   *)
(* "v1.0-mini" inside it.  Python's None is the empty tuple <<>> for       *)
(* objects and NoCoord for event.xdata / event.ydata.  Pointer             *)
(* coordinates are floats; a coordinate c stands for the float c / 2.      *)
(* Image.save / Image.open and LidarPointCloud.from_file are the codec     *)
(* boundary: a file's content is the raster or point array handed to it.   *)
(***************************************************************************)
EXTENDS Integers, Sequences, FiniteSets, TLC

(***************************************************************************)
(* Bounds of the model                                                     *)
(***************************************************************************)
ImgW == 2
ImgH == 2
NumFrames == 2
MaxCam == 1
MaxCommits == 2
MaxSessions == 2

(***************************************************************************)
(* Program constants and the dataset the program is run on                 *)
(***************************************************************************)
SEP == "/"
NoCoord == -99
camera_channels == <<"CAM_FRONT_LEFT", "CAM_FRONT", "CAM_FRONT_RIGHT", "CAM_BACK_LEFT", "CAM_BACK", "CAM_BACK_RIGHT">>
lidar_channel == "LIDAR_TOP"
version == "v1.0-mini"
EDITED_NAME == <<"v1.0-mini", "-edited">>

Cams == 1..Len(camera_channels)
Frames == 1..NumFrames
FrameNames == <<"f1", "f2", "f3", "f4">>

\* the dataset roots the program is started on: an absolute root, the same
\* with a trailing separator, a root that is itself named v1.0-mini-edited,
\* and a relative root named like the version directory
DatasetRoots ==
    { <<"/", "data", "/", "nuscenes">>,
      <<"/", "data", "/", "nuscenes", "/">>,
      <<"/", "data", "/", "v1.0-mini", "-edited">>,
      <<"v1.0-mini">> }

(***************************************************************************)
(* str.replace, os.path.join, os.path.dirname on token sequences           *)
(***************************************************************************)
MatchAt(s, old, i) ==
    /\ i + Len(old) - 1 <= Len(s)
    /\ SubSeq(s, i, i + Len(old) - 1) = old

RECURSIVE ReplaceFrom(_, _, _, _)
ReplaceFrom(s, old, new, i) ==
    IF i > Len(s) THEN <<>>
    ELSE IF MatchAt(s, old, i) THEN new \o ReplaceFrom(s, old, new, i + Len(old))
    ELSE <<s[i]>> \o ReplaceFrom(s, old, new, i + 1)

RECURSIVE Interleave(_, _, _)
Interleave(s, new, i) ==
    IF i > Len(s) THEN new ELSE new \o <<s[i]>> \o Interleave(s, new, i + 1)

\* str.replace(old, new): every non-overlapping occurrence, left to right
replace(s, old, new) ==
    IF old = <<>> THEN Interleave(s, new, 1) ELSE ReplaceFrom(s, old, new, 1)

\* posixpath.join(a, b)
join(a, b) ==
    IF b # <<>> /\ b[1] = SEP THEN b
    ELSE IF a = <<>> \/ a[Len(a)] = SEP THEN a \o b
    ELSE a \o <<SEP>> \o b

RECURSIVE RStripSep(_)
RStripSep(s) ==
    IF s # <<>> /\ s[Len(s)] = SEP THEN RStripSep(SubSeq(s, 1, Len(s) - 1)) ELSE s

LastSep(s) ==
    LET I == {i \in 1..Len(s) : s[i] = SEP}
    IN  IF I = {} THEN 0 ELSE CHOOSE i \in I : \A j \in I : j <= i

\* posixpath.dirname(p)
dirname(p) ==
    LET head == SubSeq(p, 1, LastSep(p))
    IN  IF head # <<>> /\ \E i \in 1..Len(head) : head[i] # SEP
        THEN RStripSep(head) ELSE head

(***************************************************************************)
(* The file system.  A path names the entry Key(path): the path with       *)
(* repeated and trailing separators dropped.  fs.dirs is the set of        *)
(* directories, fs.files maps each file to its content.  "/" and the       *)
(* working directory <<>> always exist.                                    *)
(***************************************************************************)
RECURSIVE Squeeze(_, _)
Squeeze(p, i) ==
    IF i > Len(p) THEN <<>>
    ELSE IF p[i] = SEP /\ (i = Len(p) \/ p[i + 1] = SEP) /\ i > 1 THEN Squeeze(p, i + 1)
    ELSE IF p[i] = SEP /\ i = 1 /\ Len(p) > 1 /\ p[2] = SEP THEN Squeeze(p, i + 1)
    ELSE <<p[i]>> \o Squeeze(p, i + 1)

Key(p) == Squeeze(p, 1)

IsTop(k) == k = <<>> \/ k = <<SEP>>

Parent(k) ==
    IF IsTop(k) THEN k
    ELSE IF LastSep(k) = 1 THEN <<SEP>>
    ELSE SubSeq(k, 1, LastSep(k) - 1)

RECURSIVE Ancestors(_)
Ancestors(k) == IF IsTop(k) THEN {k} ELSE {k} \cup Ancestors(Parent(k))

LastName(k) == SubSeq(k, LastSep(k) + 1, Len(k))

isdir(f, p) == Key(p) \in f.dirs
isfile(f, p) == Key(p) \in DOMAIN f.files
\* os.path.exists(p)
exists(f, p) == isdir(f, p) \/ isfile(f, p)

\* the order in which os.scandir lists a directory: arbitrary but fixed
RECURSIVE SetToSeq(_)
SetToSeq(S) ==
    IF S = {} THEN <<>>
    ELSE LET x == CHOOSE y \in S : TRUE IN <<x>> \o SetToSeq(S \ {x})

ChildNames(keys, k) == {LastName(e) : e \in {d \in keys : ~IsTop(d) /\ Parent(d) = k}}

basename(p) == SubSeq(p, LastSep(p) + 1, Len(p))

(***************************************************************************)
(* File operations thread a record st = [dirs, files, ok, ops, fault]:     *)
(* ok turns FALSE when an operation raises, after which the rest of the    *)
(* caller is skipped; the operation numbered fault fails with an OSError   *)
(* of the storage (disk full, permissions); fault = -1 never happens.      *)
(***************************************************************************)
Raise(st) == [st EXCEPT !.ok = FALSE]

\* os.makedirs(p, exist_ok)
makedirs(st, p, exist_ok) ==
    LET k == Key(p) IN
    IF ~st.ok THEN st
    ELSE IF k \in st.dirs THEN (IF exist_ok THEN st ELSE Raise(st))
    ELSE IF Ancestors(k) \cap DOMAIN st.files # {} THEN Raise(st)
    ELSE IF st.ops = st.fault THEN Raise(st)
    ELSE [st EXCEPT !.dirs = @ \cup Ancestors(k), !.ops = @ + 1]

\* shutil.copy2(src, dst)
copy2(st, src, dst) ==
    LET to == IF Key(dst) \in st.dirs THEN join(dst, basename(src)) ELSE dst
        k  == Key(to)
    IN  IF ~st.ok THEN st
        ELSE IF Key(src) \notin DOMAIN st.files THEN Raise(st)
        ELSE IF k = Key(src) \/ k \in st.dirs THEN Raise(st)
        ELSE IF Parent(k) \notin st.dirs THEN Raise(st)
        ELSE IF st.ops = st.fault THEN Raise(st)
        ELSE [st EXCEPT !.files = [x \in DOMAIN @ \cup {k} |->
                                       IF x = k THEN st.files[Key(src)] ELSE @[x]],
                        !.ops = @ + 1]

\* lines 36-39: for dir_name in dirs
RECURSIVE CopyDirs(_, _, _, _, _)
CopyDirs(st, top, names, dataset_root, edited_dataset_root) ==
    IF names = <<>> THEN st
    ELSE LET src_dir == join(top, Head(names))
             dst_dir == replace(src_dir, dataset_root, edited_dataset_root)
         IN  CopyDirs(makedirs(st, dst_dir, TRUE), top, Tail(names),
                      dataset_root, edited_dataset_root)

\* lines 40-43: for file_name in files
RECURSIVE CopyFiles(_, _, _, _, _)
CopyFiles(st, top, names, dataset_root, edited_dataset_root) ==
    IF names = <<>> THEN st
    ELSE LET src_file == join(top, Head(names))
             dst_file == replace(src_file, dataset_root, edited_dataset_root)
         IN  CopyFiles(copy2(st, src_file, dst_file), top, Tail(names),
                       dataset_root, edited_dataset_root)

\* line 35: for root, dirs, files in os.walk(dataset_root), top-down: a
\* directory is listed when the walk enters it, its body runs, then the walk
\* enters each of the listed sub-directories
RECURSIVE CopyTree(_, _, _, _)
RECURSIVE CopyInto(_, _, _, _, _)
CopyTree(st, top, dataset_root, edited_dataset_root) ==
    IF ~st.ok \/ Key(top) \notin st.dirs THEN st
    ELSE LET dirs  == SetToSeq(ChildNames(st.dirs, Key(top)))
             files == SetToSeq(ChildNames(DOMAIN st.files, Key(top)))
             st1   == CopyDirs(st, top, dirs, dataset_root, edited_dataset_root)
             st2   == CopyFiles(st1, top, files, dataset_root, edited_dataset_root)
         IN  CopyInto(st2, top, dirs, dataset_root, edited_dataset_root)
CopyInto(st, top, names, dataset_root, edited_dataset_root) ==
    IF names = <<>> THEN st
    ELSE CopyInto(CopyTree(st, join(top, Head(names)), dataset_root, edited_dataset_root),
                  top, Tail(names), dataset_root, edited_dataset_root)

\* line 29
EditedRoot(dataset_root) == join(dirname(dataset_root), EDITED_NAME)

\* a constructor that copies the tree whether or not the mirror is there
EnsureMirrorAlways(f, dataset_root, fault) ==
    LET edited == EditedRoot(dataset_root)
        st0    == [dirs |-> f.dirs, files |-> f.files, ok |-> TRUE, ops |-> 0, fault |-> fault]
    IN  CopyTree(makedirs(st0, edited, TRUE), dataset_root, dataset_root, edited)

\* lines 31-43: the mirror is built only when its root does not exist
EnsureMirror(f, dataset_root, fault) ==
    LET edited == EditedRoot(dataset_root)
        st0    == [dirs |-> f.dirs, files |-> f.files, ok |-> TRUE, ops |-> 0, fault |-> fault]
    IN  IF exists(f, edited) THEN st0
        ELSE CopyTree(makedirs(st0, edited, FALSE), dataset_root, dataset_root, edited)

(***************************************************************************)
(* The dataset: camera rasters (ImgH x ImgW pixels of three 8-bit          *)
(* channels, indexed [row, column] from 0), one point cloud per frame      *)
(* (columns x, y, z, intensity of the (4, N) array), and the catalog       *)
(* NuScenes answers from: the frame chain and each channel's file name.    *)
(***************************************************************************)
Pix == (0..(ImgH - 1)) \X (0..(ImgW - 1))
ZeroPx == <<0, 0, 0>>

SrcImage(c, k) == [type |-> "image", px |-> [p \in Pix |-> <<10 * c + k, 1 + p[1], 1 + p[2]>>]]
SrcPoints(k) == [type |-> "points", pts |-> << <<2, 2, 5, k>>, <<3, 3, 3, 7>>, <<5, -1, 1, 1>> >>]

NoToken == 0
FirstToken == 1
\* nusc.get("sample", token)["next"]
NextToken(token) == IF token < NumFrames THEN token + 1 ELSE NoToken
\* nusc.get("sample_data", sample["data"][channel])["filename"]: a file of
\* the directory samples, named after the channel and the frame
Filename(token, channel) == <<"samples", SEP, channel, FrameNames[token]>>

SourceFiles(dataset_root) ==
    LET tab  == Key(join(dataset_root, <<version, SEP, "sample.json">>))
        camK(c, k) == Key(join(dataset_root, Filename(k, camera_channels[c])))
        lidK(k) == Key(join(dataset_root, Filename(k, lidar_channel)))
        keys == {tab} \cup {camK(c, k) : c \in Cams, k \in Frames} \cup {lidK(k) : k \in Frames}
    IN  [x \in keys |->
            IF x = tab THEN [type |-> "table"]
            ELSE IF \E k \in Frames : x = lidK(k)
                 THEN SrcPoints(CHOOSE k \in Frames : x = lidK(k))
                 ELSE LET ck == CHOOSE ck \in Cams \X Frames : x = camK(ck[1], ck[2])
                      IN  SrcImage(ck[1], ck[2])]

\* the file system a run starts on: the dataset under dataset_root
SourceTree(dataset_root) ==
    [dirs  |-> Ancestors(Key(join(dataset_root, <<"samples">>)))
                 \cup Ancestors(Key(join(dataset_root, <<version>>)))
                 \cup {<<SEP>>, <<>>},
     files |-> SourceFiles(dataset_root)]

(***************************************************************************)
(* Axes.  The figure of frame token k holds the 3 x 3 grid of axes         *)
(* <<k, 0>> .. <<k, 8>>.  The fields of the visualizer are the record self. *)
(***************************************************************************)
LidarIdx == 4
TextIdx == 5
\* lines 201-203, with i counted from 1
PlaceIdx(i) == IF i - 1 >= 3 THEN (i - 1) + 3 ELSE i - 1
CamAx(k, i) == <<k, PlaceIdx(i)>>
LidarAx(k) == <<k, LidarIdx>>

Min2(a, b) == IF a <= b THEN a ELSE b
Max2(a, b) == IF a <= b THEN b ELSE a

\* int(c / 2): truncation toward zero of the float a coordinate stands for
IntOf(c) == IF c >= 0 THEN c \div 2 ELSE -((-c) \div 2)

\* the indices a[lo:hi] selects on an axis of length n (numpy basic slicing)
SliceIdx(lo, hi, n) ==
    LET start == IF lo < 0 THEN Max2(lo + n, 0) ELSE Min2(lo, n)
        stop  == IF hi < 0 THEN Max2(hi + n, 0) ELSE Min2(hi, n)
    IN  {i \in 0..(n - 1) : start <= i /\ i < stop}

\* line 130: img_array[y1:y2, x1:x2] = 0
Blackout(px, x1, x2, y1, y2) ==
    [p \in Pix |-> IF p[1] \in SliceIdx(y1, y2, ImgH) /\ p[2] \in SliceIdx(x1, x2, ImgW)
                   THEN ZeroPx ELSE px[p]]

\* lines 103-107: mask on the two plotted rows, row 2 (z) set to 0
MaskPoints(pts, x1, x2, y1, y2) ==
    [n \in 1..Len(pts) |->
        IF pts[n][1] >= x1 /\ pts[n][1] <= x2 /\ pts[n][2] >= y1 /\ pts[n][2] <= y2
        THEN [pts[n] EXCEPT ![3] = 0] ELSE pts[n]]

\* lines 148-150 (and 193-195, 217-219): a Rectangle that was never added
\* to an axes cannot be removed: remove() raises and self.rect stays
RemoveRect(s) ==
    IF s.rect = <<>> THEN s
    ELSE IF s.rect[1].ax = <<>> THEN s
    ELSE [s EXCEPT !.rect = <<>>]

\* lines 186-195
on_lidar_click(s, event, ax, points) ==
    IF event.inaxes = ax
    THEN RemoveRect([s EXCEPT !.current_ax = ax,
                              !.current_img = <<[kind |-> "ndarray", pts |-> points]>>,
                              !.current_img_path = <<>>,
                              !.selection_start = <<>>,
                              !.selection_end = <<>>])
    ELSE s

\* a click handler that keeps the image and the path it already holds
on_click_stale(s, event, ax, image, img_path) ==
    IF event.inaxes = ax
    THEN RemoveRect([s EXCEPT !.current_ax = ax,
                              !.current_img = IF @ = <<>> THEN <<[kind |-> "PIL", px |-> image]>> ELSE @,
                              !.current_img_path = IF @ = <<>> THEN img_path ELSE @,
                              !.selection_start = <<>>,
                              !.selection_end = <<>>])
    ELSE s

\* lines 210-219
on_click(s, event, ax, image, img_path) ==
    IF event.inaxes = ax
    THEN RemoveRect([s EXCEPT !.current_ax = ax,
                              !.current_img = <<[kind |-> "PIL", px |-> image]>>,
                              !.current_img_path = img_path,
                              !.selection_start = <<>>,
                              !.selection_end = <<>>])
    ELSE s

\* lines 78-84.  With event.inaxes = None = self.current_ax the corner
\* (None, None) is stored and the handler raises: in plt.Rectangle when it
\* validates its arguments (ctor_raises), else in None.add_patch, after
\* self.rect was assigned
on_press(s, event, ctor_raises) ==
    IF event.inaxes # s.current_ax THEN s
    ELSE LET s1 == [s EXCEPT !.selection_start = <<event.xdata, event.ydata>>]
             r  == [ax |-> s.current_ax, xy |-> <<event.xdata, event.ydata>>,
                    width |-> 0, height |-> 0]
         IN  IF event.xdata = NoCoord /\ ctor_raises THEN s1
             ELSE [s1 EXCEPT !.rect = <<r>>]

\* lines 152-161
on_motion(s, event) ==
    IF event.inaxes # s.current_ax \/ s.selection_start = <<>> \/ s.rect = <<>> THEN s
    ELSE IF event.xdata = NoCoord \/ s.selection_start[1] = NoCoord THEN s
    ELSE [s EXCEPT !.rect = <<[@[1] EXCEPT !.width = event.xdata - s.selection_start[1],
                                           !.height = event.ydata - s.selection_start[2]]>>]

\* lines 145-150
ResetSelection(s) == RemoveRect([s EXCEPT !.selection_start = <<>>, !.selection_end = <<>>])

\* line 137: blacked_img.save(edited_img_path), on the entry k the path names
CanSave(f, k, save_fails) ==
    /\ ~save_fails
    /\ ~IsTop(k)
    /\ Parent(k) \in f.dirs
    /\ k \notin f.dirs

WriteFile(f, k, content) ==
    [f EXCEPT !.files = [x \in DOMAIN @ \cup {k} |-> IF x = k THEN content ELSE @[x]]]

\* a save that goes to the path the raster was loaded from
EditedPathUnmapped(s) == s.current_img_path

\* line 136
EditedPath(s) == replace(s.current_img_path, s.dataroot, s.edited_dataset_root)

\* lines 86-150.  The result names the visualizer, the file system and the
\* display after the handler, and what the handler did: "ignored" (early
\* return), "error" (it raised before redacting), "lidar" or "image" (a
\* commit), "unsaved" (the raster was redacted but save raised)
on_release(s, event, f, disp, save_fails) ==
    LET same == [self |-> s, fs |-> f, shown |-> disp, did |-> "ignored", zeroed |-> {}]
        s1   == [s EXCEPT !.selection_end = <<event.xdata, event.ydata>>]
        x1   == Min2(s.selection_start[1], event.xdata)
        x2   == Max2(s.selection_start[1], event.xdata)
        y1   == Min2(s.selection_start[2], event.ydata)
        y2   == Max2(s.selection_start[2], event.ydata)
        idx  == s.current_ax[2]
    IN  IF event.inaxes # s.current_ax \/ s.selection_start = <<>> THEN same
        ELSE IF event.xdata = NoCoord \/ s.selection_start[1] = NoCoord \/ s.current_img = <<>>
             THEN [same EXCEPT !.self = s1, !.did = "error"]
        ELSE IF s.current_img[1].kind = "ndarray"
             THEN LET points == MaskPoints(s.current_img[1].pts, x1, x2, y1, y2)
                  IN  [same EXCEPT !.self = ResetSelection(s1),
                                   !.shown = [disp EXCEPT ![idx] = [type |-> "points", pts |-> points]],
                                   !.did = "lidar"]
        ELSE LET blacked_img == [type |-> "image",
                                 px |-> Blackout(s.current_img[1].px, IntOf(x1), IntOf(x2),
                                                 IntOf(y1), IntOf(y2))]
                 region == {q \in Pix : q[1] \in SliceIdx(IntOf(y1), IntOf(y2), ImgH)
                                        /\ q[2] \in SliceIdx(IntOf(x1), IntOf(x2), ImgW)}
                 saves == s.current_img_path # <<>>
                 edited_img_path == Key(EditedPath(s))
             IN  IF saves /\ ~CanSave(f, edited_img_path, save_fails)
                 THEN [same EXCEPT !.self = s1, !.did = "unsaved"]
                 ELSE [same EXCEPT !.self = ResetSelection(s1),
                                   !.fs = IF saves THEN WriteFile(f, edited_img_path, blacked_img) ELSE f,
                                   !.shown = [disp EXCEPT ![idx] = blacked_img],
                                   !.did = "image",
                                   !.zeroed = region]

(***************************************************************************)
(* State                                                                   *)
(***************************************************************************)
VARIABLES
    pc,            \* "new": no visualizer; "ready": constructed; "loop": at the head of
                   \* the for loop of visualize_n_frames; "show": inside plt.show();
                   \* "returned": visualize_n_frames returned; "raised": an exception
                   \* left the walk; "failed": an exception left the constructor
    session,       \* number of times the program was started
    dataset_root,  \* the constructor's argument
    fs,            \* the file system
    self,          \* the visualizer's fields
    sample_token,  \* visualize_n_frames: the loop's sample_token
    n_frames,      \* visualize_n_frames: its argument
    iter,          \* visualize_n_frames: iterations of the for loop begun
    loaded,        \* visualize_sample: images and lidar_points, as the closures hold them
    shown,         \* what each axes of the open figure displays
    pointer_down,  \* <<inaxes>> of the pointer-down not yet followed by a pointer-up
    commits,       \* number of commits so far
    redacted,      \* per written file, the pixels blacked out by the commits saved to it
    visited,       \* the frames visualize_sample was called on, in order, this session
    corner_token   \* the frame whose figure was open when on_press last recorded a corner

vars == <<pc, session, dataset_root, fs, self, sample_token, n_frames, iter, loaded,
          shown, pointer_down, commits, redacted, visited, corner_token>>

\* lines 23-29
NewSelf(root) ==
    [selection_start |-> <<>>, selection_end |-> <<>>, current_ax |-> <<>>,
     current_img |-> <<>>, rect |-> <<>>, current_img_path |-> <<>>,
     edited_dataset_root |-> EditedRoot(root), dataroot |-> root]

\* no figure is open; also: no file was redacted yet
NoFigure == [k \in {} |-> 0]

\* the storage faults and pointer positions the environment is sampled at
Faults == {-1, 0, 11}
NFramesArgs == {1, NumFrames + 1}
PressPositions == {<<1, 1>>, <<-3, -1>>}
ReleasePositions == {<<1, 1>>, <<3, 3>>, <<5, 5>>, <<-3, -1>>}
MotionPositions == {<<3, 3>>}

Init ==
    /\ pc = "new"
    /\ session = 0
    /\ dataset_root \in DatasetRoots
    /\ fs = SourceTree(dataset_root)
    /\ self = [NewSelf(<<>>) EXCEPT !.edited_dataset_root = <<>>]
    /\ sample_token = NoToken
    /\ n_frames = 0
    /\ iter = 0
    /\ loaded = NoFigure
    /\ shown = NoFigure
    /\ pointer_down = <<>>
    /\ commits = 0
    /\ redacted = NoFigure
    /\ visited = <<>>
    /\ corner_token = NoToken

\* lines 11-43: NuScenesVisualizer(dataset_root), in a new run of the program
Construct(fault) ==
    /\ pc \in {"new", "failed", "returned", "raised"}
    /\ session < MaxSessions
    /\ LET st == EnsureMirror(fs, dataset_root, fault)
       IN  /\ fs' = [dirs |-> st.dirs, files |-> st.files]
           /\ pc' = IF st.ok THEN "ready" ELSE "failed"
    /\ self' = NewSelf(dataset_root)
    /\ session' = session + 1
    /\ sample_token' = NoToken
    /\ n_frames' = 0
    /\ iter' = 0
    /\ visited' = <<>>
    /\ pointer_down' = <<>>
    /\ corner_token' = NoToken
    /\ UNCHANGED <<dataset_root, loaded, shown, commits, redacted>>

\* lines 248-254: visualize_n_frames(n), up to the head of the loop
VisualizeNFrames(n) ==
    /\ pc = "ready"
    /\ pc' = "loop"
    /\ sample_token' = FirstToken
    /\ n_frames' = n
    /\ iter' = 0
    /\ UNCHANGED <<session, dataset_root, fs, self, loaded, shown, pointer_down,
                   commits, redacted, visited, corner_token>>

\* lines 255-257: range(n_frames) is exhausted, or sample_token is empty
LoopExit ==
    /\ pc = "loop"
    /\ iter = n_frames \/ sample_token = NoToken
    /\ pc' = "returned"
    /\ UNCHANGED <<session, dataset_root, fs, self, sample_token, n_frames, iter, loaded,
                   shown, pointer_down, commits, redacted, visited, corner_token>>

ImgPath(root, token, i) == join(root, Filename(token, camera_channels[i]))
LidarPath(root, token) == join(root, Filename(token, lidar_channel))

\* lines 53-76: every file is opened under nusc.dataroot
Loadable(f, root, token) ==
    /\ \A i \in Cams : isfile(f, ImgPath(root, token, i))
                         /\ f.files[Key(ImgPath(root, token, i))].type = "image"
    /\ isfile(f, LidarPath(root, token))
    /\ f.files[Key(LidarPath(root, token))].type = "points"

\* lines 258, 163-246: visualize_sample(sample_token) up to plt.show(); a file
\* that cannot be read or decoded raises out of the loop (decodes = FALSE)
VisualizeSample(decodes) ==
    /\ pc = "loop"
    /\ iter < n_frames /\ sample_token # NoToken
    /\ visited' = Append(visited, sample_token)
    /\ IF decodes /\ Loadable(fs, self.dataroot, sample_token)
       THEN LET images == [i \in Cams |-> fs.files[Key(ImgPath(self.dataroot, sample_token, i))].px]
                lidar_points == fs.files[Key(LidarPath(self.dataroot, sample_token))].pts
            IN  /\ loaded' = [images |-> images, lidar_points |-> lidar_points]
                /\ shown' = [x \in {PlaceIdx(i) : i \in Cams} \cup {LidarIdx} |->
                                IF x = LidarIdx THEN [type |-> "points", pts |-> lidar_points]
                                ELSE [type |-> "image",
                                      px |-> images[CHOOSE i \in Cams : PlaceIdx(i) = x]]]
                /\ pc' = "show"
       ELSE /\ pc' = "raised"
            /\ UNCHANGED <<loaded, shown>>
    /\ UNCHANGED <<session, dataset_root, fs, self, sample_token, n_frames, iter,
                   pointer_down, commits, redacted, corner_token>>

\* lines 246, 259: the operator closes the figure, plt.show() returns
CloseFigure ==
    /\ pc = "show"
    /\ pc' = "loop"
    /\ sample_token' = NextToken(sample_token)
    /\ iter' = iter + 1
    /\ loaded' = NoFigure
    /\ shown' = NoFigure
    /\ pointer_down' = <<>>
    /\ UNCHANGED <<session, dataset_root, fs, self, n_frames, commits, redacted, visited,
                   corner_token>>

(***************************************************************************)
(* Pointer events of the open figure.  An event is [inaxes, xdata, ydata]; *)
(* outside every axes inaxes, xdata and ydata are None.                    *)
(***************************************************************************)
ViewAxes(k) == {CamAx(k, i) : i \in 1..MaxCam} \cup {LidarAx(k)}
EventAxes(k) == ViewAxes(k) \cup {<<k, TextIdx>>, <<>>}
Events(k, at) ==
    {[inaxes |-> a, xdata |-> q[1], ydata |-> q[2]] : a \in EventAxes(k) \ {<<>>}, q \in at}
        \cup {[inaxes |-> <<>>, xdata |-> NoCoord, ydata |-> NoCoord]}

\* lines 200-225: the six camera callbacks, in the order they were connected;
\* the axes differ, so at most one of them sees its own axes in the event
Clicks(s, event, k) ==
    LET hit == {i \in Cams : event.inaxes = CamAx(k, i)}
    IN  IF hit = {} THEN s
        ELSE LET i == CHOOSE j \in hit : TRUE
             IN  on_click(s, event, CamAx(k, i), loaded.images[i], ImgPath(s.dataroot, k, i))

\* button_press_event: on_lidar_click (line 197), the camera callbacks
\* (line 225), then on_press (line 228).  The operator makes at most
\* MaxCommits redactions and leaves the pointer alone after the last one
ButtonPress(event, ctor_raises) ==
    /\ pc = "show"
    /\ pointer_down = <<>>
    /\ commits < MaxCommits
    /\ LET s1 == on_lidar_click(self, event, LidarAx(sample_token), loaded.lidar_points)
           s2 == Clicks(s1, event, sample_token)
       IN  /\ self' = on_press(s2, event, ctor_raises)
           /\ corner_token' = IF event.inaxes = s2.current_ax THEN sample_token
                               ELSE corner_token
    /\ pointer_down' = IF event.inaxes \in ViewAxes(sample_token) THEN <<event.inaxes>> ELSE << <<>> >>
    /\ UNCHANGED <<pc, session, dataset_root, fs, sample_token, n_frames, iter, loaded,
                   shown, commits, redacted, visited>>

\* button_release_event: on_release (line 229)
ButtonRelease(event, save_fails) ==
    /\ pc = "show"
    /\ pointer_down # <<>>
    /\ LET r == on_release(self, event, fs, shown, save_fails)
           saved == r.did = "image" /\ self.current_img_path # <<>>
           k == Key(EditedPath(self))
       IN  /\ r.did \in {"lidar", "image"} => commits < MaxCommits
           /\ self' = r.self
           /\ fs' = r.fs
           /\ shown' = r.shown
           /\ commits' = IF r.did \in {"lidar", "image"} THEN commits + 1 ELSE commits
           /\ redacted' = IF saved
                           THEN [x \in DOMAIN redacted \cup {k} |->
                                    IF x \in DOMAIN redacted /\ x # k THEN redacted[x]
                                    ELSE IF x \in DOMAIN redacted THEN redacted[x] \cup r.zeroed
                                    ELSE r.zeroed]
                           ELSE redacted
    /\ pointer_down' = <<>>
    /\ UNCHANGED <<pc, session, dataset_root, sample_token, n_frames, iter, loaded, visited,
                   corner_token>>

\* a motion handler that redraws the camera views with a pixel blacked out
MotionRedraws(event) ==
    /\ pc = "show"
    /\ self' = on_motion(self, event)
    /\ shown' = [x \in DOMAIN shown |->
                    IF x = LidarIdx THEN shown[x]
                    ELSE [shown[x] EXCEPT !.px = Blackout(@, 0, 1, 0, 1)]]
    /\ UNCHANGED <<pc, session, dataset_root, fs, sample_token, n_frames, iter, loaded,
                   pointer_down, commits, redacted, visited, corner_token>>

\* motion_notify_event: on_motion (line 230)
Motion(event) ==
    /\ pc = "show"
    /\ self' = on_motion(self, event)
    /\ UNCHANGED <<pc, session, dataset_root, fs, sample_token, n_frames, iter, loaded,
                   shown, pointer_down, commits, redacted, visited, corner_token>>

Next ==
    \/ \E fault \in Faults : Construct(fault)
    \/ \E n \in NFramesArgs : VisualizeNFrames(n)
    \/ LoopExit
    \/ \E decodes \in BOOLEAN : VisualizeSample(decodes)
    \/ CloseFigure
    \/ \E event \in Events(sample_token, PressPositions) :
          \E ctor_raises \in (IF event.inaxes = <<>> THEN BOOLEAN ELSE {FALSE}) :
             ButtonPress(event, ctor_raises)
    \/ \E event \in Events(sample_token, ReleasePositions) :
          \E save_fails \in (IF event.inaxes = <<>> THEN {FALSE} ELSE BOOLEAN) :
             ButtonRelease(event, save_fails)
    \/ \E event \in Events(sample_token, MotionPositions) : Motion(event)

Spec == Init /\ [][Next]_vars

(***************************************************************************)
(* Properties.  A commit is a step that increases commits.  The mirrored   *)
(* path of a source path is the source path with the source-root prefix    *)
(* replaced by the mirror root (mirrored, below).                          *)
(***************************************************************************)

\* C1: raster redactions accumulate on the mirror: after every commit, every
\* pixel in the union of the regions committed so far on a raster is zero in
\* the file the commits were written to.
C1_RedactionsAccumulate ==
    \A k \in DOMAIN redacted : \A p \in redacted[k] :
        k \in DOMAIN fs.files /\ fs.files[k].px[p] = ZeroPx

\* C2: the source dataset is never modified: whatever the source root and
\* whatever happened so far, every file under the source root is there with
\* its original content.
C2_SourceNeverModified ==
    \A k \in DOMAIN SourceFiles(dataset_root) :
        k \in DOMAIN fs.files /\ fs.files[k] = SourceFiles(dataset_root)[k]

\* C3: a commit touches at most one file: a commit on camera channel i writes
\* the raster then displayed to the mirrored path of channel i of the current
\* frame and changes no other file or directory; a commit on the point-cloud
\* view changes nothing in the file system.
C3_CommitTouchesOneFile ==
    [][commits' = commits + 1 =>
        IF self.current_ax = LidarAx(sample_token) THEN fs' = fs
        ELSE \E i \in Cams :
                /\ self.current_ax = CamAx(sample_token, i)
                /\ LET p == ImgPath(dataset_root, sample_token, i)
                       mirrored == EditedRoot(dataset_root) \o SubSeq(p, Len(dataset_root) + 1, Len(p))
                       k == Key(mirrored)
                   IN  /\ fs'.dirs = fs.dirs
                       /\ DOMAIN fs'.files = DOMAIN fs.files \cup {k}
                       /\ \A x \in DOMAIN fs.files \ {k} : fs'.files[x] = fs.files[x]
                       /\ fs'.files[k] = shown'[PlaceIdx(i)]]_vars

\* C3 happens: in one figure a camera raster and the point cloud were both
\* redacted, and the mirrored file of the camera holds the displayed raster
C3_Witness ==
    /\ pc = "show"
    /\ commits = 2
    /\ shown[LidarIdx].pts # loaded.lidar_points
    /\ \E i \in Cams :
          /\ shown[PlaceIdx(i)].px # loaded.images[i]
          /\ LET p == ImgPath(dataset_root, sample_token, i)
                 mirrored == EditedRoot(dataset_root) \o SubSeq(p, Len(dataset_root) + 1, Len(p))
                 k == Key(mirrored)
             IN  k \in DOMAIN fs.files /\ fs.files[k] = shown[PlaceIdx(i)]

\* C4: raster redaction containment: when the corners of a committed
\* selection, normalized and truncated toward zero, give [x1,x2) x [y1,y2)
\* inside the raster, then after the commit every pixel inside the rectangle
\* is zero on all channels and every pixel outside it is as it was displayed
\* just before the commit.
C4_RasterContainment ==
    [][\A event \in Events(sample_token, ReleasePositions) : \A save_fails \in BOOLEAN :
        (/\ ButtonRelease(event, save_fails)
         /\ commits' = commits + 1
         /\ self.current_ax # LidarAx(sample_token)) =>
            LET x1 == IntOf(Min2(self.selection_start[1], event.xdata))
                x2 == IntOf(Max2(self.selection_start[1], event.xdata))
                y1 == IntOf(Min2(self.selection_start[2], event.ydata))
                y2 == IntOf(Max2(self.selection_start[2], event.ydata))
                idx == self.current_ax[2]
            IN  (0 <= x1 /\ x1 <= x2 /\ x2 <= ImgW /\ 0 <= y1 /\ y1 <= y2 /\ y2 <= ImgH) =>
                    \A p \in Pix :
                        shown'[idx].px[p] =
                            IF y1 <= p[1] /\ p[1] < y2 /\ x1 <= p[2] /\ p[2] < x2
                            THEN ZeroPx ELSE shown[idx].px[p]]_vars

\* C5: point-cloud masking: after a commit of the selection [x1,x2] x [y1,y2]
\* on the point-cloud view, every displayed point inside the bounds
\* (inclusive) has its colour scalar 0 and its other attributes unchanged,
\* every other point is as it was displayed before the commit, and no point
\* is added, removed or reordered.
C5_PointCloudMasking ==
    [][\A event \in Events(sample_token, ReleasePositions) : \A save_fails \in BOOLEAN :
        (/\ ButtonRelease(event, save_fails)
         /\ commits' = commits + 1
         /\ self.current_ax = LidarAx(sample_token)) =>
            LET x1 == Min2(self.selection_start[1], event.xdata)
                x2 == Max2(self.selection_start[1], event.xdata)
                y1 == Min2(self.selection_start[2], event.ydata)
                y2 == Max2(self.selection_start[2], event.ydata)
                before == shown[LidarIdx].pts
                after  == shown'[LidarIdx].pts
            IN  /\ Len(after) = Len(before)
                /\ \A n \in 1..Len(before) :
                      after[n] =
                          IF x1 <= before[n][1] /\ before[n][1] <= x2
                             /\ y1 <= before[n][2] /\ before[n][2] <= y2
                          THEN [before[n] EXCEPT ![3] = 0] ELSE before[n]]_vars

\* C6: a zero-area selection is a no-op: a commit whose pointer-up is at the
\* coordinates of its pointer-down leaves the display and the file system as
\* they were immediately before the commit, whatever was committed earlier.
C6_ZeroAreaNoOp ==
    [][\A event \in Events(sample_token, ReleasePositions) : \A save_fails \in BOOLEAN :
        (/\ ButtonRelease(event, save_fails)
         /\ commits' = commits + 1
         /\ self.selection_start = <<event.xdata, event.ydata>>) =>
            shown' = shown /\ fs' = fs]_vars

\* C7: state-machine safety, the part of it about data: a pointer-up in a
\* view that is not matched by a pointer-down in the same view since the
\* previous pointer-up changes no displayed raster or point cloud and no
\* file.
C7_UnmatchedPointerUp ==
    [][\A event \in Events(sample_token, ReleasePositions) : \A save_fails \in BOOLEAN :
        (/\ ButtonRelease(event, save_fails)
         /\ event.inaxes \in ViewAxes(sample_token)
         /\ pointer_down # <<event.inaxes>>) =>
            shown' = shown /\ fs' = fs]_vars

\* C8: mirror creation is idempotent: a construction that follows an earlier
\* construction on the same source root copies nothing: it changes no file
\* and no directory, so the redactions written to the mirror stay.
C8_SecondConstructionCopiesNothing ==
    [][\A fault \in Faults :
        (Construct(fault) /\ pc \in {"returned", "raised"}) => fs' = fs]_vars

\* C8 happens: the visualizer was constructed a second time over a mirror
\* that holds a redacted raster
C8_Witness ==
    /\ session = 2
    /\ pc = "ready"
    /\ \E i \in Cams : \E t \in Frames :
          LET p == ImgPath(dataset_root, t, i)
              mirrored == EditedRoot(dataset_root) \o SubSeq(p, Len(dataset_root) + 1, Len(p))
              k == Key(mirrored)
          IN  /\ k # Key(p)
              /\ k \in DOMAIN fs.files
              /\ fs.files[k] # fs.files[Key(p)]

\* C9: the walk visits a prefix of the chain: when visualize_n_frames is
\* over it has run exactly min(max_frames, L) cycles, L the length of the
\* chain, on the frames of the chain in successor order from the first,
\* none of them twice.
C9_WalkVisitsPrefix ==
    pc \in {"returned", "raised"} =>
        /\ Len(visited) = Min2(n_frames, NumFrames)
        /\ \A j \in 1..Len(visited) : visited[j] = FirstToken + (j - 1)

\* C10: a load failure on one frame does not end the walk: when a raster or
\* the point cloud of a frame cannot be decoded, the frame is skipped and the
\* walk goes on at the head of the loop with the successor of the frame.
C10_LoadFailureSkipsFrame ==
    [][VisualizeSample(FALSE) =>
        /\ pc' = "loop"
        /\ sample_token' = NextToken(sample_token)
        /\ iter' = iter + 1]_vars

\* C11: a failed write to the mirror is recovered locally: when the save of
\* a committed raster redaction fails, the view shows the redacted raster,
\* the selection corners and the overlay are cleared (the machine is back in
\* ViewActive), and nothing else of the edit is kept: no file changes.
C11_FailedWriteRecovered ==
    [][\A event \in Events(sample_token, ReleasePositions) : \A save_fails \in BOOLEAN :
        (/\ ButtonRelease(event, save_fails)
         /\ on_release(self, event, fs, shown, save_fails).did = "unsaved") =>
            LET x1 == IntOf(Min2(self.selection_start[1], event.xdata))
                x2 == IntOf(Max2(self.selection_start[1], event.xdata))
                y1 == IntOf(Min2(self.selection_start[2], event.ydata))
                y2 == IntOf(Max2(self.selection_start[2], event.ydata))
                idx == self.current_ax[2]
            IN  /\ shown'[idx].px = Blackout(self.current_img[1].px, x1, x2, y1, y2)
                /\ self'.selection_start = <<>>
                /\ self'.selection_end = <<>>
                /\ self'.rect = <<>>
                /\ self'.current_ax = self.current_ax
                /\ fs' = fs]_vars

\* C12: releasing outside the active view discards the selection: a
\* pointer-up while a corner is recorded, at a position that is not in the
\* active view, changes no data, unsets the corner and removes the overlay.
C12_ReleaseOutsideDiscards ==
    [][\A event \in Events(sample_token, ReleasePositions) : \A save_fails \in BOOLEAN :
        (/\ ButtonRelease(event, save_fails)
         /\ self.current_ax # <<>>
         /\ self.selection_start # <<>>
         /\ event.inaxes # self.current_ax) =>
            /\ fs' = fs
            /\ shown' = shown
            /\ self'.selection_start = <<>>
            /\ self'.rect = <<>>]_vars

\* C13: activating a view: a pointer-down inside a view other than the
\* active one makes that view the active view, clears the corner and the
\* overlay, and leaves no drag in progress.
C13_ActivationStartsNoDrag ==
    [][\A event \in Events(sample_token, PressPositions) : \A ctor_raises \in BOOLEAN :
        (/\ ButtonPress(event, ctor_raises)
         /\ event.inaxes \in ViewAxes(sample_token)
         /\ event.inaxes # self.current_ax) =>
            /\ self'.current_ax = event.inaxes
            /\ self'.selection_start = <<>>
            /\ self'.rect = <<>>]_vars

\* C14: an in-progress selection has no effect on data: a pointer-down or a
\* pointer-move changes no displayed raster or point cloud, no loaded raster
\* or point cloud and no file; while a figure is open, these change only in
\* a step that commits.
C14_SelectionLeavesData ==
    [][LET press  == \E event \in Events(sample_token, PressPositions) :
                        \E ctor_raises \in BOOLEAN : ButtonPress(event, ctor_raises)
           motion == \E event \in Events(sample_token, MotionPositions) : Motion(event)
           same   == fs' = fs /\ shown' = shown /\ loaded' = loaded
       IN  /\ (press \/ motion) => same
           /\ (pc = "show" /\ pc' = "show" /\ ~same) => commits' = commits + 1]_vars

\* C14 happens: a drag is on in a camera view, the overlay was resized by a
\* pointer-move, and the view still shows the raster as loaded
C14_Witness ==
    /\ pc = "show"
    /\ pointer_down # <<>>
    /\ self.selection_start # <<>>
    /\ self.rect # <<>>
    /\ self.rect[1].width # 0
    /\ \E i \in Cams :
          /\ self.current_ax = CamAx(sample_token, i)
          /\ shown[PlaceIdx(i)].px = loaded.images[i]

\* C15: point-cloud redactions persist for the rest of the cycle: a commit
\* on the point-cloud view keeps the colour scalar zero for every displayed
\* point an earlier commit of the same cycle set to zero, so that after
\* commits R1 and R2 every point in R1 \cup R2 is displayed with scalar
\* zero (no point of the dataset has scalar zero when loaded).
C15_PointCloudRedactionsPersist ==
    [][(/\ commits' = commits + 1
        /\ self.current_ax = LidarAx(sample_token)) =>
            \A n \in 1..Len(shown[LidarIdx].pts) :
                shown[LidarIdx].pts[n][3] = 0 => shown'[LidarIdx].pts[n][3] = 0]_vars

\* C16: mirror completeness: once a startup has completed, whatever
\* startups came before it, every directory and every file of the dataset
\* under the source root has a counterpart at the corresponding path under
\* the mirror root (the source-root prefix replaced by the mirror root).
C16_MirrorComplete ==
    pc \in {"ready", "loop", "show", "returned", "raised"} =>
        LET mirrored(rel) ==
                LET p == join(dataset_root, rel)
                IN  Key(EditedRoot(dataset_root) \o SubSeq(p, Len(dataset_root) + 1, Len(p)))
            channels == {camera_channels[i] : i \in Cams} \cup {lidar_channel}
        IN  /\ Key(EditedRoot(dataset_root)) \in fs.dirs
            /\ mirrored(<<"samples">>) \in fs.dirs
            /\ mirrored(<<version>>) \in fs.dirs
            /\ mirrored(<<version, SEP, "sample.json">>) \in DOMAIN fs.files
            /\ \A t \in Frames : \A ch \in channels :
                  mirrored(Filename(t, ch)) \in DOMAIN fs.files

\* C17: a selection is in progress only on an active view: whenever a
\* corner is recorded (selection_start is set), an active view exists
\* (current_ax is set) and the corner is a pair of coordinates, never the
\* position-less pair of an event outside every axes.
C17_CornerOnlyOnActiveView ==
    self.selection_start # <<>> =>
        /\ self.current_ax # <<>>
        /\ self.selection_start[1] # NoCoord
        /\ self.selection_start[2] # NoCoord

\* C18: redaction state does not leak across frames: every commit redacts a
\* view of the frame whose figure is open, from the raster or point cloud
\* loaded for that frame and with that frame's path, and its first corner
\* was recorded by a pointer-down of that same frame (the second corner is
\* the pointer-up of the commit itself).
C18_NoLeakAcrossFrames ==
    [][commits' = commits + 1 =>
        /\ self.current_ax # <<>>
        /\ self.current_ax[1] = sample_token
        /\ corner_token = sample_token
        /\ IF self.current_ax = LidarAx(sample_token)
           THEN /\ self.current_img = <<[kind |-> "ndarray", pts |-> loaded.lidar_points]>>
                /\ self.current_img_path = <<>>
           ELSE \E i \in Cams :
                   /\ self.current_ax = CamAx(sample_token, i)
                   /\ self.current_img = <<[kind |-> "PIL", px |-> loaded.images[i]]>>
                   /\ self.current_img_path = ImgPath(dataset_root, sample_token, i)]_vars

\* C18 happens: the walk advanced to the second frame, a view of its figure
\* is active and a camera raster of the second frame was redacted
C18_Witness ==
    /\ pc = "show"
    /\ sample_token = NextToken(FirstToken)
    /\ Len(visited) = 2
    /\ self.current_ax # <<>>
    /\ self.current_ax[1] = sample_token
    /\ \E i \in Cams : shown[PlaceIdx(i)].px # loaded.images[i]

====
